---- MODULE Spec2Model ----
(***************************************************************************)
(* Model of moltbot-memory-local: LocalMemoryPlugin (SQLite structured     *)
(* store + LanceDB vector store + local embeddings), as listed in          *)
(* src/README.md lines 349-1022.                                           *)
(*                                                                         *)
(* JavaScript runs one continuation at a time, so every action below is    *)
(* the code between two awaits of one async function.  Strings are         *)
(* sequences of one-character strings so that toLowerCase, split, LIKE and *)
(* the noise regexes are computed, not assumed.  Importance is in tenths   *)
(* (0.7 is 7); timestamps are clock ticks (toISOString is order            *)
(* preserving).                                                            *)
(***************************************************************************)
EXTENDS Integers, Sequences, FiniteSets, TLC

VARIABLES
    db,            \* this.db contents: id -> row of table memories
    dbOpen,        \* this.db !== null
    initialized,   \* this.initialized
    file,          \* memories.db on disk: the rows of the last save()
    enableEmbeddings, \* this.config.enableEmbeddings
    maxMemories,   \* this.config.maxMemories
    nextId,        \* number of ids handed out by randomUUID so far
    clock,         \* the wall clock read by new Date()
    embeddingPipeline, \* module variable: 0 is null, n > 0 the n-th instance loaded
    lanceDb,       \* module variable lanceDb !== null
    lanceTable,    \* module variable lanceTable !== null
    vec,           \* ids of the rows of the LanceDB table (0 is '__init__')
    task,          \* id -> position of the storeEmbedding call started for it
    pendingDel,    \* vector deletes issued by pruneOldMemories, not yet settled
    fg,            \* the forget call in flight
    rc,            \* the recall call in flight
    pcInit,        \* position of the init() call
    faults,        \* failures injected so far by the external engines
    closes,        \* close() calls so far
    ret,           \* what the last public call returned, until another one starts
    embeddingDimensions, \* this.embeddingDimensions
    inserted       \* history: the row of every INSERT so far, where recorded

vars == <<db, dbOpen, initialized, file, enableEmbeddings, maxMemories, inserted, nextId,
          clock, embeddingPipeline, lanceDb, lanceTable, vec, task, pendingDel,
          fg, rc, pcInit, faults, closes, ret, embeddingDimensions>>

\* ------------------------------------------------------------------ bounds
\* store() calls in a behaviour of Spec, SpecSeq, SpecQuery
MaxStores == 2
SeqStores == 4
QueryStores == 2
\* config.maxMemories of the instance in Spec, SpecSeq, SpecQuery (default 10000)
MaxMemories == 1
SeqMaxMemories == 2
QueryMaxMemories == 2
MaxClock == 2
MaxFaults == 1
MaxCloses == 1

\* ------------------------------------------------------- program constants
defaultImportance == 7
\* private embeddingDimensions = 384, the length of the vectors of the
\* default model
DefaultDimensions == 384
\* the length of a vector of another model
OtherDimensions == 768
DefaultLimit == 5
ForgetLimit == 100
FetchFactor == 2

\* ------------------------------------------------------------ characters
Min(a, b) == IF a < b THEN a ELSE b

UpperCase == {"A", "B", "D", "K", "O"}

ToLowerChar(c) ==
    CASE c = "A" -> "a" [] c = "B" -> "b" [] c = "D" -> "d"
      [] c = "K" -> "k" [] c = "O" -> "o" [] OTHER -> c

\* String.prototype.toLowerCase
toLowerCase(s) == [i \in 1..Len(s) |-> ToLowerChar(s[i])]

\* the regex class \s
IsSpace(c) == c \in {" ", "\t"}

\* the regex class \d
IsDigit(c) == c \in {"0", "1", "2", "3", "4", "5", "6", "7", "8", "9"}

\* the regex class \w
IsWordChar(c) ==
    \/ IsDigit(c)
    \/ c = "_"
    \/ c \in UpperCase
    \/ c \in {"a", "b", "c", "d", "e", "f", "g", "h", "i", "j", "k", "l", "m",
              "n", "o", "p", "q", "r", "s", "t", "u", "v", "w", "x", "y", "z"}

\* s.split(/\s+/): the maximal runs of non-space characters, in order; a
\* string that starts (ends) with white space also yields a leading (trailing)
\* empty string, which every caller filters out by length.
SplitWs(s) ==
    LET starts == {i \in 1..Len(s) :
                     /\ ~IsSpace(s[i])
                     /\ (i = 1 \/ IsSpace(s[i - 1]))}
        EndOf(i) == CHOOSE j \in i..Len(s) :
                     /\ \A k \in i..j : ~IsSpace(s[k])
                     /\ (j = Len(s) \/ IsSpace(s[j + 1]))
        RECURSIVE Collect(_, _)
        Collect(from, acc) ==
            IF \E i \in starts : i >= from
            THEN LET i == CHOOSE x \in starts :
                              x >= from /\ \A y \in starts : y >= from => x <= y
                 IN  Collect(EndOf(i) + 1, Append(acc, SubSeq(s, i, EndOf(i))))
            ELSE acc
    IN  Collect(1, <<>>)

\* needle occurs in hay as a contiguous substring
IsSubstring(needle, hay) ==
    \E i \in 0..(Len(hay) - Len(needle)) :
        \A k \in 1..Len(needle) : hay[i + k] = needle[k]

\* SQLite: hay LIKE '%' || word || '%' on lower-cased operands.  In word the
\* characters % and _ are wildcards; the words of the model hold neither.
Like(hay, word) == IsSubstring(word, hay)

\* ------------------------------------------------------------------ inputs
\* "in Bern"
TxtInBern == <<"i", "n", " ", "B", "e", "r", "n">>
\* "OK": matches the first noise pattern under the i flag
TxtOK == <<"O", "K">>
\* "Dark"
TxtDark == <<"D", "a", "r", "k">>
\* "a": its only word is dropped by the length filter
TxtA == <<"a">>

\* "bern"
QBern == <<"b", "e", "r", "n">>
\* "ok"
QOk == <<"o", "k">>
\* "is": a stop word, so no text constraint is left
QIs == <<"i", "s">>
\* "dark ok": two search words, joined by OR
QDarkOk == <<"d", "a", "r", "k", " ", "o", "k">>

\* "on 5": routed to the structured search by the seventh temporal pattern
QOn5 == <<"o", "n", " ", "5">>

\* "id:": matches the third exact-lookup pattern and no temporal pattern
QId == <<"i", "d", ":">>

\* every string the model passes as a query
Queries == {QBern, QOk, QIs, QDarkOk, QOn5, QId, TxtInBern, TxtOK, TxtDark, TxtA, <<>>}

NoMetadata == [present |-> FALSE, pairs |-> {}]
\* {k: "v"}
MdClean == [present |-> TRUE, pairs |-> {<<"k", "v">>}]
\* {k: undefined}: JSON.stringify drops the key
MdUndef == [present |-> TRUE, pairs |-> {<<"k", "undefined">>}]

\* The params of store() the model draws from.  category "" and importance -1
\* stand for an absent property.
StoreParams ==
    { [text |-> TxtInBern, category |-> "", importance |-> -1, metadata |-> NoMetadata],
      [text |-> TxtOK, category |-> "conversation", importance |-> 9, metadata |-> NoMetadata],
      [text |-> TxtDark, category |-> "fact", importance |-> 2, metadata |-> MdClean],
      [text |-> TxtA, category |-> "", importance |-> 7, metadata |-> MdUndef] }

\* ------------------------------------------------------------ conversions
\* JSON.stringify(metadata): a property whose value is undefined is left out
JsonStringify(md) ==
    [present |-> TRUE, pairs |-> {p \in md.pairs : p[2] # "undefined"}]

\* the metadata column written by store: memory.metadata ? JSON.stringify(..) : null
MetadataColumn(md) == IF md.present THEN JsonStringify(md) ELSE NoMetadata

\* row.metadata ? JSON.parse(row.metadata) : undefined
MetadataOfRow(col) == IF col.present THEN [present |-> TRUE, pairs |-> col.pairs] ELSE NoMetadata

\* ---------------------------------------------------------- noise filter
noisePatterns1 ==
    { <<"o", "k">>, <<"o", "k", "a", "y">>, <<"y", "e", "s">>, <<"n", "o">>,
      <<"t", "h", "a", "n", "k", "s">>,
      <<"t", "h", "a", "n", "k", " ", "y", "o", "u">>,
      <<"s", "u", "r", "e">>, <<"g", "o", "t", " ", "i", "t">>,
      <<"c", "o", "o", "l">>, <<"n", "i", "c", "e">>, <<"g", "r", "e", "a", "t">> }

\* noiseRegexes.some(re => re.test(text)) for the two default patterns, flag i
IsNoise(text) ==
    \/ toLowerCase(text) \in noisePatterns1
    \/ \A i \in 1..Len(text) : IsSpace(text[i])

\* ------------------------------------------------------ structured search
StopWords ==
    { <<"w", "h", "a", "t">>, <<"d", "i", "d">>, <<"w", "h", "e", "n">>,
      <<"w", "h", "e", "r", "e">>, <<"h", "o", "w">>, <<"t", "h", "e">>,
      <<"i", "s">>, <<"a", "r", "e">>, <<"w", "a", "s">>, <<"w", "e", "r", "e">>,
      <<"m", "y">>, <<"y", "o", "u">>, <<"l", "a", "s", "t">>,
      <<"t", "h", "i", "s">> }

SelectSeq2(s, Test(_)) == SelectSeq(s, Test)

\* words, then searchWords, of structuredSearch
searchWords(query) ==
    LET words == SelectSeq2(SplitWs(toLowerCase(query)), LAMBDA w : Len(w) > 1)
    IN  SelectSeq2(words, LAMBDA w : w \notin StopWords)

SeqToSet(s) == {s[i] : i \in 1..Len(s)}

\* searchWords of each query of the model, computed once
SearchWordsOf == [q \in Queries |-> searchWords(q)]

\* the WHERE clause with a text condition that no row meets when the query
\* leaves no search word
WhereClause_NoWordsNoRows(row, params) ==
    /\ params.query # <<>>
          => \E w \in SeqToSet(SearchWordsOf[params.query]) : Like(row.text_lower, w)
    /\ params.category # "" => row.category = params.category
    /\ params.dateFrom >= 0 => row.created_at >= params.dateFrom
    /\ params.dateTo >= 0 => row.created_at <= params.dateTo

\* the WHERE clause of structuredSearch for one row
WhereClause(row, params) ==
    /\ (params.query # <<>> /\ SearchWordsOf[params.query] # <<>>)
          => \E w \in SeqToSet(SearchWordsOf[params.query]) : Like(row.text_lower, w)
    /\ params.category # "" => row.category = params.category
    /\ params.dateFrom >= 0 => row.created_at >= params.dateFrom
    /\ params.dateTo >= 0 => row.created_at <= params.dateTo

\* all orderings of the finite set S
Perms(S) ==
    {s \in [1..Cardinality(S) -> S] : \A i, j \in 1..Cardinality(S) : i # j => s[i] # s[j]}

\* the order with the key importance alone, created_at left out
RanksAbove_ImportanceOnly(d, a, b) ==
    d[a].importance > d[b].importance

\* ORDER BY importance DESC, created_at DESC: a comes strictly before b
RanksAbove(d, a, b) ==
    \/ d[a].importance > d[b].importance
    \/ d[a].importance = d[b].importance /\ d[a].created_at > d[b].created_at

\* ORDER BY importance ASC, created_at ASC where the code has DESC
OrderDesc_Ascending(d, ids) ==
    {s \in Perms(ids) : \A i, j \in 1..Len(s) : i < j => ~RanksAbove(d, s[i], s[j])}

\* Every order SQLite may produce for ORDER BY importance DESC, created_at DESC
\* over the rows ids: rows equal in both keys come in an unspecified order.
OrderDesc(d, ids) ==
    {s \in Perms(ids) : \A i, j \in 1..Len(s) : i < j => ~RanksAbove(d, s[j], s[i])}

\* ORDER BY importance DESC, created_at DESC where the code has ASC
OrderAsc_Descending(d, ids) ==
    {s \in Perms(ids) : \A i, j \in 1..Len(s) : i < j => ~RanksAbove(d, s[j], s[i])}

\* ORDER BY importance ASC, created_at ASC
OrderAsc(d, ids) ==
    {s \in Perms(ids) : \A i, j \in 1..Len(s) : i < j => ~RanksAbove(d, s[i], s[j])}

\* LIMIT n: a negative n is no limit
SqlLimit(s, n) == IF n < 0 THEN s ELSE SubSeq(s, 1, Min(n, Len(s)))

\* a row read back as a Memory (no score)
RowToMemory(d, id) ==
    [id |-> id, text |-> d[id].text, category |-> d[id].category,
     importance |-> d[id].importance, createdAt |-> d[id].created_at,
     updatedAt |-> d[id].updated_at, metadata |-> MetadataOfRow(d[id].metadata),
     score |-> <<>>]

\* structuredSearch(params, limit): the result lists it may return
structuredSearch(d, params, limit) ==
    LET hit == {id \in DOMAIN d : WhereClause(d[id], params)}
    IN  { [i \in 1..Len(SqlLimit(s, limit * FetchFactor)) |-> RowToMemory(d, s[i])] :
            s \in OrderDesc(d, hit) }

\* results.slice(0, limit)
Slice(s, limit) ==
    IF limit >= 0 THEN SubSeq(s, 1, Min(limit, Len(s)))
    ELSE SubSeq(s, 1, IF Len(s) + limit > 0 THEN Len(s) + limit ELSE 0)

\* the tail of recall with the noise filter applied whatever filterNoise is
FilterAndSlice_AlwaysFilters(results, params, limit) ==
    Slice(SelectSeq2(results, LAMBDA m : ~IsNoise(m.text)), limit)

\* the tail of recall: noise filter, then slice
FilterAndSlice(results, params, limit) ==
    LET kept == IF params.filterNoise
                THEN SelectSeq2(results, LAMBDA m : ~IsNoise(m.text))
                ELSE results
    IN  Slice(kept, limit)

\* const limit = params.limit || 5
LimitOf(params) == IF params.limit = 0 THEN DefaultLimit ELSE params.limit

\* ------------------------------------------------------- query routing
\* A regular expression is a sequence of atoms:
\*   b    the assertion \b            bol  the assertion ^
\*   alt  one of the literals ss      rep  lo..hi characters of the set cs
\* Literals are lower case and are matched against the lower-cased text, which
\* is the i flag for the characters of the model.
AtomB == [t |-> "b", ss |-> {}, cs |-> {}, lo |-> 0, hi |-> 0]
AtomBol == [t |-> "bol", ss |-> {}, cs |-> {}, lo |-> 0, hi |-> 0]
AtomAlt(ss) == [t |-> "alt", ss |-> ss, cs |-> {}, lo |-> 0, hi |-> 0]
AtomRep(cs, lo, hi) == [t |-> "rep", ss |-> {}, cs |-> cs, lo |-> lo, hi |-> hi]

Spaces == {" ", "\t"}
Digits == {"0", "1", "2", "3", "4", "5", "6", "7", "8", "9"}
\* stands for an unbounded repetition: no text of the model is longer
Many == 64

RECURSIVE MatchAt(_, _, _, _)
\* atoms k.. of pat match text from position i on
MatchAt(text, i, pat, k) ==
    IF k > Len(pat) THEN TRUE
    ELSE LET a == pat[k] IN
      CASE a.t = "b" ->
             /\ (i > 1 /\ IsWordChar(text[i - 1])) # (i <= Len(text) /\ IsWordChar(text[i]))
             /\ MatchAt(text, i, pat, k + 1)
        [] a.t = "bol" -> i = 1 /\ MatchAt(text, i, pat, k + 1)
        [] a.t = "alt" ->
             \E s \in a.ss :
                /\ i + Len(s) - 1 <= Len(text)
                /\ \A j \in 1..Len(s) : text[i + j - 1] = s[j]
                /\ MatchAt(text, i + Len(s), pat, k + 1)
        [] a.t = "rep" ->
             \E n \in a.lo..Min(a.hi, Len(text) - i + 1) :
                /\ \A j \in 0..(n - 1) : text[i + j] \in a.cs
                /\ MatchAt(text, i + n, pat, k + 1)

\* pattern.test(query) for a pattern with the i flag (or with no letters)
RegexTest(pat, query) ==
    \E i \in 1..(Len(query) + 1) : MatchAt(toLowerCase(query), i, pat, 1)

Weekdays ==
    {
      <<"m", "o", "n", "d", "a", "y">>, <<"t", "u", "e", "s", "d", "a", "y">>,
      <<"w", "e", "d", "n", "e", "s", "d", "a", "y">>,
      <<"t", "h", "u", "r", "s", "d", "a", "y">>, <<"f", "r", "i", "d", "a", "y">>,
      <<"s", "a", "t", "u", "r", "d", "a", "y">>, <<"s", "u", "n", "d", "a", "y">> }

Months ==
    {
      <<"j", "a", "n", "u", "a", "r", "y">>, <<"f", "e", "b", "r", "u", "a", "r", "y">>,
      <<"m", "a", "r", "c", "h">>, <<"a", "p", "r", "i", "l">>, <<"m", "a", "y">>,
      <<"j", "u", "n", "e">>, <<"j", "u", "l", "y">>, <<"a", "u", "g", "u", "s", "t">>,
      <<"s", "e", "p", "t", "e", "m", "b", "e", "r">>,
      <<"o", "c", "t", "o", "b", "e", "r">>, <<"n", "o", "v", "e", "m", "b", "e", "r">>,
      <<"d", "e", "c", "e", "m", "b", "e", "r">> }

Periods ==
    {
      <<"w", "e", "e", "k">>, <<"m", "o", "n", "t", "h">>, <<"y", "e", "a", "r">> }

TEMPORAL_PATTERNS ==
    << <<AtomB, AtomAlt({ <<"y", "e", "s", "t", "e", "r", "d", "a", "y">>, <<"t", "o", "d", "a", "y">> }), AtomB>>,
       <<AtomB, AtomAlt({<<"l", "a", "s", "t">>, <<"t", "h", "i", "s">>}), AtomRep(Spaces, 1, Many),
         AtomAlt(Periods), AtomB>>,
       <<AtomB, AtomAlt(Weekdays), AtomB>>,
       <<AtomB, AtomRep(Digits, 1, 2), AtomRep({":", "-"}, 1, 1), AtomRep(Digits, 2, 2), AtomB>>,
       <<AtomB, AtomRep(Digits, 4, 4), AtomRep({"/", "-"}, 1, 1), AtomRep(Digits, 1, 2),
         AtomRep({"/", "-"}, 1, 1), AtomRep(Digits, 1, 2), AtomB>>,
       <<AtomB, AtomAlt(Months), AtomB>>,
       <<AtomB, AtomAlt({<<"w", "h", "e", "n">>}), AtomRep(Spaces, 1, Many),
         AtomAlt({<<"d", "i", "d">>}), AtomB>>,
       <<AtomB, AtomAlt({ <<"a", "t">>, <<"o", "n">>, <<"d", "u", "r", "i", "n", "g">>,<<"b", "e", "f", "o", "r", "e">>, <<"a", "f", "t", "e", "r">> }),
         AtomRep(Spaces, 1, Many), AtomRep(Digits, 1, 1)>> >>

EXACT_PATTERNS ==
    << <<AtomBol, AtomAlt({<<"w", "h", "a", "t">>}), AtomRep(Spaces, 1, Many),
         AtomAlt({ <<"i", "s">>, <<"a", "r", "e">>, <<"w", "a", "s">>, <<"w", "e", "r", "e">> }),
         AtomRep(Spaces, 1, Many), AtomAlt({<<"m", "y">>, <<"t", "h", "e">>}), AtomB>>,
       <<AtomB, AtomAlt({<<"e", "x", "a", "c", "t">>, <<"e", "x", "a", "c", "t", "l", "y">>}), AtomB>>,
       <<AtomB, AtomAlt({<<"i", "d">>}), AtomRep(Spaces, 0, Many), AtomRep({":", "="}, 1, 1)>> >>

detectQueryType(query) ==
    IF \E p \in 1..Len(TEMPORAL_PATTERNS) : RegexTest(TEMPORAL_PATTERNS[p], query)
    THEN "structured"
    ELSE IF \E p \in 1..Len(EXACT_PATTERNS) : RegexTest(EXACT_PATTERNS[p], query)
    THEN "structured"
    ELSE "semantic"

\* ------------------------------------------------------------ state parts
\* the id of the row '__init__' that ensureLanceTable creates the table with
InitRow == 0

NoRows == [i \in {} |-> 0]

NoParams ==
    [query |-> <<>>, limit |-> 0, category |-> "", dateFrom |-> -1, dateTo |-> -1,
     filterNoise |-> TRUE, mode |-> "auto"]

IdleRecall == [pc |-> "idle", params |-> NoParams]

IdleForget ==
    [pc |-> "idle", params |-> NoParams, memoryId |-> 0, targets |-> <<>>,
     rest |-> <<>>, deleted |-> 0, removed |-> {}, snap |-> NoRows]

NoReturn ==
    [op |-> "none", id |-> 0, list |-> <<>>, params |-> NoParams, deleted |-> 0,
     targets |-> <<>>, removed |-> {}, snap |-> NoRows]

\* a call rejected with an Error
Thrown == [NoReturn EXCEPT !.op = "error"]

\* the params of recall() the model draws from (limit 0 stands for absent)
RecallParams ==
    { [NoParams EXCEPT !.query = QBern, !.mode = "structured"],
      [NoParams EXCEPT !.query = QBern, !.mode = "semantic"],
      [NoParams EXCEPT !.query = QOk, !.filterNoise = FALSE],
      [NoParams EXCEPT !.query = QDarkOk, !.limit = 1],
      [NoParams EXCEPT !.query = QOn5],
      [NoParams EXCEPT !.query = QOn5, !.mode = "semantic"],
      [NoParams EXCEPT !.query = QId],
      [NoParams EXCEPT !.query = QBern, !.mode = "semantic",
                       !.category = "conversation"] }

\* the queries of forget({query}) the model draws from
ForgetQueries == {QBern, QIs, QOn5}

\* the recall of forget with the noise filter left on
ForgetRecallParams_FilterNoise(q) ==
    [NoParams EXCEPT !.query = q, !.limit = ForgetLimit]

\* this.recall({ query, limit: 100, filterNoise: false }) as forget calls it
ForgetRecallParams(q) ==
    [NoParams EXCEPT !.query = q, !.limit = ForgetLimit, !.filterNoise = FALSE]

\* rows d without the rows ids: DELETE FROM memories WHERE id IN (ids)
DeleteRows(d, ids) == [i \in (DOMAIN d) \ ids |-> d[i]]

\* ------------------------------------------------------------------- Init
\* the instance as the constructor leaves it, in a process that has loaded
\* nothing yet and on a data directory that does not exist yet
Constructed ==
    /\ db = NoRows
    /\ dbOpen = FALSE
    /\ initialized = FALSE
    /\ file = NoRows
    /\ nextId = 0
    /\ clock = 0
    /\ embeddingPipeline = 0
    /\ lanceDb = FALSE
    /\ lanceTable = FALSE
    /\ vec = {}
    /\ task = NoRows
    /\ pendingDel = {}
    /\ fg = IdleForget
    /\ rc = IdleRecall
    /\ pcInit = "idle"
    /\ faults = 0
    /\ closes = 0
    /\ ret = NoReturn
    /\ embeddingDimensions = DefaultDimensions

Init ==
    /\ Constructed
    /\ enableEmbeddings = TRUE
    /\ maxMemories = MaxMemories
    /\ inserted = [on |-> FALSE, rows |-> NoRows]

\* an external engine (embedding model, LanceDB) may fail a call
MayFail == faults < MaxFaults

\* ------------------------------------------------------- init() and close()
\* init() up to its first await (initSqlJs)
InitStart ==
    /\ pcInit = "idle"
    /\ ~initialized
    /\ pcInit' = "sql"
    /\ ret' = NoReturn
    /\ UNCHANGED <<embeddingDimensions, db, dbOpen, initialized, file, enableEmbeddings, maxMemories, inserted, nextId, clock,
                   embeddingPipeline, lanceDb, lanceTable, vec, task, pendingDel,
                   fg, rc, faults, closes>>

\* init(): the database is read from memories.db, the schema is saved, and
\* initLanceDB is awaited when embeddings are enabled
InitSql ==
    /\ pcInit = "sql"
    /\ db' = file
    /\ dbOpen' = TRUE
    /\ file' = file
    /\ IF enableEmbeddings
       THEN pcInit' = "lance" /\ initialized' = initialized
       ELSE pcInit' = "idle" /\ initialized' = TRUE
    /\ UNCHANGED <<embeddingDimensions, enableEmbeddings, maxMemories, inserted, nextId, clock, embeddingPipeline, lanceDb,
                   lanceTable, vec, task, pendingDel, fg, rc, faults, closes, ret>>

\* init(): initLanceDB has settled.  It returns at once when lanceDb is set; a
\* fresh vectors directory holds no table, so lanceTable stays null.
InitLance ==
    /\ pcInit = "lance"
    /\ pcInit' = "idle"
    /\ initialized' = TRUE
    /\ \/ /\ lanceDb' = TRUE
          /\ UNCHANGED <<enableEmbeddings, faults>>
       \/ /\ ~lanceDb
          /\ MayFail
          /\ faults' = faults + 1
          /\ enableEmbeddings' = FALSE
          /\ UNCHANGED lanceDb
    /\ UNCHANGED <<embeddingDimensions, db, dbOpen, file, maxMemories, inserted, nextId, clock, embeddingPipeline,
                   lanceTable, vec, task, pendingDel, fg, rc, closes, ret>>

\* close()
Close ==
    /\ closes < MaxCloses
    /\ closes' = closes + 1
    /\ IF dbOpen
       THEN file' = db /\ db' = NoRows /\ dbOpen' = FALSE
       ELSE UNCHANGED <<file, db, dbOpen>>
    /\ initialized' = FALSE
    /\ ret' = NoReturn
    /\ UNCHANGED <<embeddingDimensions, enableEmbeddings, maxMemories, inserted, nextId, clock, embeddingPipeline, lanceDb,
                   lanceTable, vec, task, pendingDel, fg, rc, pcInit, faults>>

\* ---------------------------------------------------------------- store()
\* the Memory object store builds and returns
NewMemory(id, params, now) ==
    [id |-> id, text |-> params.text,
     category |-> IF params.category = "" THEN "other" ELSE params.category,
     importance |-> IF params.importance = -1 THEN defaultImportance ELSE params.importance,
     createdAt |-> now, updatedAt |-> now, metadata |-> params.metadata,
     score |-> <<>>]

\* the row INSERTed for a Memory
RowOf(m) ==
    [text |-> m.text, text_lower |-> toLowerCase(m.text), category |-> m.category,
     importance |-> m.importance, created_at |-> m.createdAt,
     updated_at |-> m.updatedAt, metadata |-> MetadataColumn(m.metadata),
     has_embedding |-> FALSE]

InsertRow(d, m) == [i \in (DOMAIN d) \cup {m.id} |-> IF i = m.id THEN RowOf(m) ELSE d[i]]

\* pruneOldMemories with total >= maxMemories + 2 where the code has
\* total > maxMemories
PruneVictims_LateThreshold(d) ==
    IF Cardinality(DOMAIN d) > maxMemories + 1
    THEN { SeqToSet(SqlLimit(s, Cardinality(DOMAIN d) - maxMemories)) :
             s \in OrderAsc(d, DOMAIN d) }
    ELSE { {} }

\* pruneOldMemories: the sets of ids it may select,
\* SELECT id ... ORDER BY importance ASC, created_at ASC LIMIT total - maxMemories
PruneVictims(d) ==
    IF Cardinality(DOMAIN d) > maxMemories
    THEN { SeqToSet(SqlLimit(s, Cardinality(DOMAIN d) - maxMemories)) :
             s \in OrderAsc(d, DOMAIN d) }
    ELSE { {} }

\* the storeEmbedding call store starts, up to its first await: embed() asks
\* getEmbeddingPipeline, which loads the model when embeddingPipeline is null
EmbedStart == IF embeddingPipeline = 0 THEN "load" ELSE "run"

\* store(params): insert, start storeEmbedding, save, pruneOldMemories
Store(params) ==
    /\ dbOpen
    /\ \E now \in clock..Min(clock + 1, MaxClock) :
         LET id == nextId + 1
             m == NewMemory(id, params, now)
             d1 == InsertRow(db, m)
         IN  /\ clock' = now
             /\ nextId' = id
             /\ task' = IF enableEmbeddings /\ lanceDb
                        THEN [i \in (DOMAIN task) \cup {id} |->
                                 IF i = id THEN EmbedStart ELSE task[i]]
                        ELSE task
             /\ inserted' = IF inserted.on
                            THEN [inserted EXCEPT !.rows = InsertRow(inserted.rows, m)]
                            ELSE inserted
             /\ \E victims \in PruneVictims(d1) :
                  /\ db' = DeleteRows(d1, victims)
                  /\ pendingDel' = IF lanceTable THEN pendingDel \cup victims
                                   ELSE pendingDel
             /\ file' = db'
             /\ ret' = [NoReturn EXCEPT !.op = "store", !.id = id, !.list = <<m>>]
    /\ UNCHANGED <<embeddingDimensions, dbOpen, initialized, enableEmbeddings, maxMemories,
                   embeddingPipeline, lanceDb, lanceTable, vec, fg, rc, pcInit,
                   faults, closes>>

\* a public call on an instance whose db is null throws
CallWithoutDb ==
    /\ ~dbOpen
    /\ ret # Thrown
    /\ ret' = Thrown
    /\ UNCHANGED <<embeddingDimensions, db, dbOpen, initialized, file, enableEmbeddings, maxMemories, inserted, nextId, clock,
                   embeddingPipeline, lanceDb, lanceTable, vec, task, pendingDel,
                   fg, rc, pcInit, faults, closes>>

\* a vector delete issued by pruneOldMemories settles; its rejection is swallowed
PruneVectorDelete(id) ==
    /\ id \in pendingDel
    /\ pendingDel' = pendingDel \ {id}
    /\ \/ vec' = vec \ {id} /\ UNCHANGED faults
       \/ MayFail /\ faults' = faults + 1 /\ UNCHANGED vec
    /\ UNCHANGED <<embeddingDimensions, db, dbOpen, initialized, file, enableEmbeddings, maxMemories, inserted, nextId, clock,
                   embeddingPipeline, lanceDb, lanceTable, task, fg, rc, pcInit,
                   closes, ret>>

\* ------------------------------------------------------- storeEmbedding()
\* getEmbeddingPipeline: the import and pipeline() have settled
TaskLoadDone(id) ==
    /\ id \in DOMAIN task
    /\ task[id] = "load"
    /\ embeddingPipeline' = embeddingPipeline + 1
    /\ task' = [task EXCEPT ![id] = "run"]
    /\ UNCHANGED <<embeddingDimensions, db, dbOpen, initialized, file, enableEmbeddings, maxMemories, inserted, nextId, clock,
                   lanceDb, lanceTable, vec, pendingDel, fg, rc, pcInit, faults,
                   closes, ret>>

\* embed() settling where its rejection reaches the caller of store
TaskRunDone_RejectsStore(id) ==
    /\ id \in DOMAIN task
    /\ task[id] = "run"
    /\ \/ /\ task' = [task EXCEPT ![id] = IF lanceTable THEN "add" ELSE "create"]
          /\ embeddingDimensions' = DefaultDimensions
          /\ UNCHANGED <<faults, ret>>
       \/ /\ MayFail
          /\ lanceTable
          /\ faults' = faults + 1
          /\ task' = [task EXCEPT ![id] = "add_mismatch"]
          /\ embeddingDimensions' = OtherDimensions
          /\ UNCHANGED ret
       \/ /\ MayFail
          /\ faults' = faults + 1
          /\ task' = [task EXCEPT ![id] = "err_env"]
          /\ ret' = Thrown
          /\ UNCHANGED embeddingDimensions
    /\ UNCHANGED <<db, dbOpen, initialized, file, enableEmbeddings, maxMemories, inserted,
                   nextId, clock, embeddingPipeline, lanceDb, lanceTable, vec, pendingDel,
                   fg, rc, pcInit, closes>>

\* embed(): pipe(text) has settled; on success this.embeddingDimensions takes
\* the length of the vector and ensureLanceTable runs up to its await
\* (createTable, unless lanceTable is set), on failure the catch ends the
\* call.  The length of the vector is the model's: once the table exists, the
\* pipeline may return a vector of another length, which the code passes on
\* to lanceTable.add as it does any vector.
TaskRunDone(id) ==
    /\ id \in DOMAIN task
    /\ task[id] = "run"
    /\ \/ /\ task' = [task EXCEPT ![id] = IF lanceTable THEN "add" ELSE "create"]
          /\ embeddingDimensions' = DefaultDimensions
          /\ UNCHANGED faults
       \/ /\ MayFail
          /\ lanceTable
          /\ faults' = faults + 1
          /\ task' = [task EXCEPT ![id] = "add_mismatch"]
          /\ embeddingDimensions' = OtherDimensions
       \/ /\ MayFail
          /\ faults' = faults + 1
          /\ task' = [task EXCEPT ![id] = "err_env"]
          /\ UNCHANGED embeddingDimensions
    /\ UNCHANGED <<db, dbOpen, initialized, file, enableEmbeddings, maxMemories, inserted, nextId, clock,
                   embeddingPipeline, lanceDb, lanceTable, vec, pendingDel, fg, rc,
                   pcInit, closes, ret>>

\* ensureLanceTable: createTable('memories', [dummy]) has settled.  LanceDB
\* rejects the creation of a table that exists.
TaskCreateDone(id) ==
    /\ id \in DOMAIN task
    /\ task[id] = "create"
    /\ \/ /\ lanceTable
          /\ task' = [task EXCEPT ![id] = "err_exists"]
          /\ UNCHANGED <<lanceTable, vec, faults>>
       \/ /\ ~lanceTable
          /\ lanceTable' = TRUE
          /\ vec' = vec \cup {InitRow}
          /\ task' = [task EXCEPT ![id] = "dummy"]
          /\ UNCHANGED faults
       \/ /\ ~lanceTable
          /\ MayFail
          /\ faults' = faults + 1
          /\ task' = [task EXCEPT ![id] = "err_env"]
          /\ UNCHANGED <<lanceTable, vec>>
    /\ UNCHANGED <<embeddingDimensions, db, dbOpen, initialized, file, enableEmbeddings, maxMemories, inserted, nextId, clock,
                   embeddingPipeline, lanceDb, pendingDel, fg, rc, pcInit, closes, ret>>

\* ensureLanceTable: the delete of the dummy row has settled; lanceTable.add is called
TaskDummyDone(id) ==
    /\ id \in DOMAIN task
    /\ task[id] = "dummy"
    /\ vec' = vec \ {InitRow}
    /\ task' = [task EXCEPT ![id] = "add"]
    /\ UNCHANGED <<embeddingDimensions, db, dbOpen, initialized, file, enableEmbeddings, maxMemories, inserted, nextId, clock,
                   embeddingPipeline, lanceDb, lanceTable, pendingDel, fg, rc,
                   pcInit, faults, closes, ret>>

\* UPDATE memories SET has_embedding = 1 WHERE id = ?
MarkEmbedded(d, id) ==
    IF id \in DOMAIN d THEN [d EXCEPT ![id].has_embedding = TRUE] ELSE d

\* the end of storeEmbedding writing the file whether or not db is null
TaskAddDone_SavesWhenClosed(id) ==
    /\ id \in DOMAIN task
    /\ task[id] \in {"add", "add_mismatch"}
    /\ \/ /\ vec' = vec \cup {id}
          /\ task' = [task EXCEPT ![id] = "done"]
          /\ db' = MarkEmbedded(db, id)
          /\ file' = db'
          /\ UNCHANGED faults
       \/ /\ MayFail
          /\ faults' = faults + 1
          /\ task' = [task EXCEPT ![id] = "err_env"]
          /\ UNCHANGED <<db, file, vec>>
       \/ /\ task[id] = "add_mismatch"
          /\ task' = [task EXCEPT ![id] = "err_env"]
          /\ UNCHANGED <<db, file, vec, faults>>
    /\ UNCHANGED <<embeddingDimensions, dbOpen, initialized, enableEmbeddings, maxMemories, inserted, nextId, clock,
                   embeddingPipeline, lanceDb, lanceTable, pendingDel, fg, rc,
                   pcInit, closes, ret>>

\* lanceTable.add has settled; then this.db?.run(UPDATE ...) and this.save().
\* Whether LanceDB takes a vector whose length is not that of the table is
\* LanceDB's to decide: the add of such a vector may resolve or reject.
TaskAddDone(id) ==
    /\ id \in DOMAIN task
    /\ task[id] \in {"add", "add_mismatch"}
    /\ \/ /\ vec' = vec \cup {id}
          /\ task' = [task EXCEPT ![id] = "done"]
          /\ IF dbOpen
             THEN db' = MarkEmbedded(db, id) /\ file' = db'
             ELSE UNCHANGED <<db, file>>
          /\ UNCHANGED faults
       \/ /\ MayFail
          /\ faults' = faults + 1
          /\ task' = [task EXCEPT ![id] = "err_env"]
          /\ UNCHANGED <<db, file, vec>>
       \/ /\ task[id] = "add_mismatch"
          /\ task' = [task EXCEPT ![id] = "err_env"]
          /\ UNCHANGED <<db, file, vec, faults>>
    /\ UNCHANGED <<embeddingDimensions, dbOpen, initialized, enableEmbeddings, maxMemories, inserted, nextId, clock,
                   embeddingPipeline, lanceDb, lanceTable, pendingDel, fg, rc,
                   pcInit, closes, ret>>

\* --------------------------------------------------------------- recall()
\* detectQueryType of each query of the model, computed once
RouteOf == [q \in Queries |-> detectQueryType(q)]

\* queryType taken from detectQueryType whatever params.mode is
QueryType_IgnoresMode(params) == RouteOf[params.query]

\* const queryType = mode === 'auto' ? detectQueryType(params.query) : mode
QueryType(params) ==
    IF params.mode = "auto" THEN RouteOf[params.query] ELSE params.mode

\* the branch of recall without the test of this.config.enableEmbeddings
AnswersStructured_WithoutConfig(params) ==
    \/ QueryType(params) = "structured"
    \/ ~lanceTable

\* recall answers from structuredSearch without awaiting anything: the
\* structured branch of recall, or semanticSearch seeing lanceTable null
AnswersStructured(params) ==
    \/ QueryType(params) = "structured"
    \/ ~enableEmbeddings
    \/ ~lanceTable

\* lanceTable.search(queryVector).limit(n).toArray(): the nearest n rows.  What
\* is nearest is decided by the embedding model, so every order may come back.
VectorSearch(n) ==
    { SubSeq(s, 1, Min(IF n < 0 THEN 0 ELSE n, Len(s))) : s \in Perms(vec) }

\* every hit at the distance 0
Distance_Constant(rank) == 0

\* the _distance of the hit at a rank: ascending with the rank
Distance(rank) == rank - 1

\* semanticSearch mapping every hit to a memory, the hits without a row in
\* SQLite included
Hydrate_KeepsMissing(d, hits) ==
    [i \in 1..Len(hits) |->
        IF hits[i] \in DOMAIN d
        THEN [RowToMemory(d, hits[i]) EXCEPT !.score = <<1 - Distance(i)>>]
        ELSE [id |-> hits[i], text |-> <<>>, category |-> "other",
              importance |-> defaultImportance, createdAt |-> 0, updatedAt |-> 0,
              metadata |-> NoMetadata, score |-> <<1 - Distance(i)>>]]

\* semanticSearch after the search: the rows of the hit ids that SQLite still
\* holds, in hit order, each with score = 1 - _distance
Hydrate(d, hits) ==
    LET ranked == [i \in 1..Len(hits) |-> <<hits[i], i>>]
        kept == SelectSeq2(ranked, LAMBDA p : p[1] \in DOMAIN d)
    IN  [i \in 1..Len(kept) |->
            [RowToMemory(d, kept[i][1]) EXCEPT !.score = <<1 - Distance(kept[i][2])>>]]

\* Outcomes of a step of recall: the call goes on at pc, returns list, or throws
Pending(pc) == [k |-> "pending", pc |-> pc, list |-> <<>>]
Returns(list) == [k |-> "returns", pc |-> "idle", list |-> list]
Throws == [k |-> "throws", pc |-> "idle", list |-> <<>>]

\* recall returning what structuredSearch finds; this.db! throws when db is null
StructuredAnswer(params) ==
    IF dbOpen
    THEN { Returns(FilterAndSlice(r, params, LimitOf(params))) :
             r \in structuredSearch(db, params, LimitOf(params)) }
    ELSE { Throws }

\* recall(params) up to its first await
RecallBegin(params) ==
    IF AnswersStructured(params) THEN StructuredAnswer(params)
    ELSE { Pending(EmbedStart) }

\* semanticSearch once lanceTable.search has resolved with hits
SemanticAnswer(params, hits) ==
    IF Len(hits) = 0 \/ ~dbOpen THEN StructuredAnswer(params)
    ELSE { Returns(FilterAndSlice(Hydrate(db, hits), params, LimitOf(params))) }

\* recall(params) resumed at pc rc.pc by a resolved promise
RecallResume(pc, params) ==
    CASE pc = "load" -> { Pending("run") }
      [] pc = "run" -> { Pending("search") }
      [] pc = "search" ->
           UNION { SemanticAnswer(params, hits) :
                     hits \in VectorSearch(LimitOf(params) * FetchFactor) }

\* recall(params) resumed by a rejected promise: the catch of semanticSearch
RecallRejected(pc, params) == StructuredAnswer(params)

RecallReturn(params, o) ==
    IF o.k = "throws" THEN Thrown
    ELSE [NoReturn EXCEPT !.op = "recall", !.params = params, !.list = o.list]

\* recall(params) is called
RecallCall(params) ==
    /\ dbOpen
    /\ rc.pc = "idle"
    /\ \E o \in RecallBegin(params) :
         IF o.k = "pending"
         THEN rc' = [pc |-> o.pc, params |-> params] /\ ret' = NoReturn
         ELSE rc' = IdleRecall /\ ret' = RecallReturn(params, o)
    /\ UNCHANGED <<embeddingDimensions, db, dbOpen, initialized, file, enableEmbeddings, maxMemories, inserted, nextId, clock,
                   embeddingPipeline, lanceDb, lanceTable, vec, task, pendingDel,
                   fg, pcInit, faults, closes>>

\* a promise awaited by the recall in flight resolves
RecallStep ==
    /\ rc.pc # "idle"
    /\ embeddingPipeline' = IF rc.pc = "load" THEN embeddingPipeline + 1
                            ELSE embeddingPipeline
    /\ \E o \in RecallResume(rc.pc, rc.params) :
         IF o.k = "pending"
         THEN rc' = [rc EXCEPT !.pc = o.pc] /\ UNCHANGED ret
         ELSE rc' = IdleRecall /\ ret' = RecallReturn(rc.params, o)
    /\ UNCHANGED <<embeddingDimensions, db, dbOpen, initialized, file, enableEmbeddings, maxMemories, inserted, nextId, clock,
                   lanceDb, lanceTable, vec, task, pendingDel, fg, pcInit, faults,
                   closes>>

\* embed() or lanceTable.search rejects for the recall in flight
RecallFault ==
    /\ rc.pc \in {"run", "search"}
    /\ MayFail
    /\ faults' = faults + 1
    /\ \E o \in RecallRejected(rc.pc, rc.params) :
         rc' = IdleRecall /\ ret' = RecallReturn(rc.params, o)
    /\ UNCHANGED <<embeddingDimensions, db, dbOpen, initialized, file, enableEmbeddings, maxMemories, inserted, nextId, clock,
                   embeddingPipeline, lanceDb, lanceTable, vec, task, pendingDel,
                   fg, pcInit, closes>>

\* --------------------------------------------------------------- forget()
ForgetReturn(f) ==
    [NoReturn EXCEPT !.op = "forget", !.id = f.memoryId, !.params = f.params,
                     !.deleted = f.deleted, !.targets = f.targets,
                     !.removed = f.removed, !.snap = f.snap]

\* forget from `if (idsToDelete.length > 0)` on, for the call state f whose
\* targets are idsToDelete: the DELETE, getRowsModified, and the first
\* lanceTable.delete; without targets, or without lanceTable, it returns
ForgetDeleteRows(f) ==
    LET hit == SeqToSet(f.targets) \cap DOMAIN db
        g == [f EXCEPT !.deleted = Cardinality(hit), !.removed = hit, !.snap = db]
    IN  IF f.targets = <<>>
        THEN /\ fg' = IdleForget
             /\ ret' = ForgetReturn(f)
             /\ UNCHANGED <<db, file>>
        ELSE /\ db' = DeleteRows(db, hit)
             /\ IF lanceTable
                THEN /\ fg' = [g EXCEPT !.pc = "vdel", !.rest = g.targets]
                     /\ ret' = NoReturn
                     /\ UNCHANGED file
                ELSE /\ fg' = IdleForget
                     /\ ret' = ForgetReturn(g)
                     /\ file' = db'

\* forget({ memoryId }) up to its first await
ForgetById(memoryId) ==
    /\ dbOpen
    /\ fg.pc = "idle"
    /\ memoryId \in 1..nextId
    /\ ForgetDeleteRows([IdleForget EXCEPT !.memoryId = memoryId,
                                           !.targets = <<memoryId>>])
    /\ UNCHANGED <<embeddingDimensions, dbOpen, initialized, enableEmbeddings, maxMemories, inserted, nextId, clock,
                   embeddingPipeline, lanceDb, lanceTable, vec, task, pendingDel,
                   rc, pcInit, faults, closes>>

MemoryIds(list) == [i \in 1..Len(list) |-> list[i].id]

\* the forget call state once its recall has the outcome o
ForgetAfterRecall(f, o) ==
    IF o.k = "pending" THEN [f EXCEPT !.pc = o.pc]
    ELSE [f EXCEPT !.pc = "del", !.targets = MemoryIds(o.list)]

\* forget({ query }) up to its first await: the recall it calls has begun
ForgetByQuery(q) ==
    /\ dbOpen
    /\ fg.pc = "idle"
    /\ \E o \in RecallBegin(ForgetRecallParams(q)) :
         fg' = ForgetAfterRecall([IdleForget EXCEPT !.params = ForgetRecallParams(q)], o)
    /\ ret' = NoReturn
    /\ UNCHANGED <<embeddingDimensions, db, dbOpen, initialized, file, enableEmbeddings, maxMemories, inserted, nextId, clock,
                   embeddingPipeline, lanceDb, lanceTable, vec, task, pendingDel,
                   rc, pcInit, faults, closes>>

\* a promise awaited by the recall that forget called resolves
ForgetRecallStep ==
    /\ fg.pc \in {"load", "run", "search"}
    /\ embeddingPipeline' = IF fg.pc = "load" THEN embeddingPipeline + 1
                            ELSE embeddingPipeline
    /\ \E o \in RecallResume(fg.pc, fg.params) :
         IF o.k = "throws"
         THEN fg' = IdleForget /\ ret' = Thrown
         ELSE fg' = ForgetAfterRecall(fg, o) /\ UNCHANGED ret
    /\ UNCHANGED <<embeddingDimensions, db, dbOpen, initialized, file, enableEmbeddings, maxMemories, inserted, nextId, clock,
                   lanceDb, lanceTable, vec, task, pendingDel, rc, pcInit, faults,
                   closes>>

\* embed() or lanceTable.search rejects for the recall that forget called
ForgetRecallFault ==
    /\ fg.pc \in {"run", "search"}
    /\ MayFail
    /\ faults' = faults + 1
    /\ \E o \in RecallRejected(fg.pc, fg.params) :
         IF o.k = "throws"
         THEN fg' = IdleForget /\ ret' = Thrown
         ELSE fg' = ForgetAfterRecall(fg, o) /\ UNCHANGED ret
    /\ UNCHANGED <<embeddingDimensions, db, dbOpen, initialized, file, enableEmbeddings, maxMemories, inserted, nextId, clock,
                   embeddingPipeline, lanceDb, lanceTable, vec, task, pendingDel,
                   rc, pcInit, closes>>

\* forget({ query }) resumed with the recalled memories; this.db.run throws
\* when close() has set db to null meanwhile
ForgetDelete ==
    /\ fg.pc = "del"
    /\ IF dbOpen
       THEN ForgetDeleteRows(fg)
       ELSE fg' = IdleForget /\ ret' = Thrown /\ UNCHANGED <<db, file>>
    /\ UNCHANGED <<embeddingDimensions, dbOpen, initialized, enableEmbeddings, maxMemories, inserted, nextId, clock,
                   embeddingPipeline, lanceDb, lanceTable, vec, task, pendingDel,
                   rc, pcInit, faults, closes>>

\* the rest of forget without its this.save()
ForgetFinish_WithoutSave ==
    /\ fg' = IdleForget
    /\ ret' = ForgetReturn(fg)
    /\ file' = file

\* the rest of forget once its vector deletes are over: this.save(), return
ForgetFinish ==
    /\ fg' = IdleForget
    /\ ret' = ForgetReturn(fg)
    /\ file' = IF dbOpen THEN db ELSE file

\* the vector deletes of forget without the try/catch: a rejection of
\* lanceTable.delete rejects forget, before this.save()
ForgetVectorDelete_FailureThrows ==
    /\ fg.pc = "vdel"
    /\ \/ /\ vec' = vec \ {Head(fg.rest)}
          /\ IF Len(fg.rest) > 1
             THEN fg' = [fg EXCEPT !.rest = Tail(fg.rest)] /\ UNCHANGED <<ret, file>>
             ELSE ForgetFinish
          /\ UNCHANGED faults
       \/ /\ MayFail
          /\ faults' = faults + 1
          /\ fg' = IdleForget
          /\ ret' = Thrown
          /\ UNCHANGED <<vec, file>>
    /\ UNCHANGED <<embeddingDimensions, db, dbOpen, initialized, enableEmbeddings, maxMemories, inserted, nextId, clock,
                   embeddingPipeline, lanceDb, lanceTable, task, pendingDel, rc,
                   pcInit, closes>>

\* `await lanceTable.delete(...)` of forget settles for the next id; a
\* rejection leaves the loop through the catch
ForgetVectorDelete ==
    /\ fg.pc = "vdel"
    /\ \/ /\ vec' = vec \ {Head(fg.rest)}
          /\ IF Len(fg.rest) > 1
             THEN fg' = [fg EXCEPT !.rest = Tail(fg.rest)] /\ UNCHANGED <<ret, file>>
             ELSE ForgetFinish
          /\ UNCHANGED faults
       \/ /\ MayFail
          /\ faults' = faults + 1
          /\ ForgetFinish
          /\ UNCHANGED vec
    /\ UNCHANGED <<embeddingDimensions, db, dbOpen, initialized, enableEmbeddings, maxMemories, inserted, nextId, clock,
                   embeddingPipeline, lanceDb, lanceTable, task, pendingDel, rc,
                   pcInit, closes>>

\* ---------------------------------------------------------- specifications
\* Spec: one instance with embeddings enabled, from construction on: init(),
\* close(), store(), the storeEmbedding calls it starts, the vector deletes
\* of retention, and forget({ memoryId }), in every interleaving.
Next ==
    \/ InitStart
    \/ InitSql
    \/ InitLance
    \/ Close
    \/ CallWithoutDb
    \/ \E params \in StoreParams : nextId < MaxStores /\ Store(params)
    \/ \E id \in pendingDel : PruneVectorDelete(id)
    \/ \E id \in DOMAIN task : TaskLoadDone(id)
    \/ \E id \in DOMAIN task : TaskRunDone(id)
    \/ \E id \in DOMAIN task : TaskCreateDone(id)
    \/ \E id \in DOMAIN task : TaskDummyDone(id)
    \/ \E id \in DOMAIN task : TaskAddDone(id)
    \/ \E id \in 1..nextId : ForgetById(id)
    \/ ForgetVectorDelete

Spec == Init /\ [][Next]_vars

\* SpecSeq: store() calls made one after the other on an instance configured
\* with enableEmbeddings false; every row inserted is recorded in `inserted`.
InitSeq ==
    /\ Constructed
    /\ enableEmbeddings = FALSE
    /\ maxMemories = SeqMaxMemories
    /\ inserted = [on |-> TRUE, rows |-> NoRows]

NextSeq ==
    \/ InitStart
    \/ InitSql
    \/ \E params \in StoreParams : nextId < SeqStores /\ Store(params)

SpecSeq == InitSeq /\ [][NextSeq]_vars

\* SpecQuery: recall() and forget({ query }) against an instance with
\* embeddings enabled whose storeEmbedding calls are in flight.  The caller
\* awaits each recall and each forget before it makes the next call.
InitQuery ==
    /\ Constructed
    /\ enableEmbeddings = TRUE
    /\ maxMemories = QueryMaxMemories
    /\ inserted = [on |-> FALSE, rows |-> NoRows]

QueryStoreParams == {p \in StoreParams : p.text \in {TxtInBern, TxtOK}}

NextQuery ==
    \/ InitStart
    \/ InitSql
    \/ InitLance
    \/ \E params \in QueryStoreParams : nextId < QueryStores /\ Store(params)
    \/ \E id \in DOMAIN task : TaskLoadDone(id)
    \/ \E id \in DOMAIN task : TaskRunDone(id)
    \/ \E id \in DOMAIN task : TaskCreateDone(id)
    \/ \E id \in DOMAIN task : TaskDummyDone(id)
    \/ \E id \in DOMAIN task : TaskAddDone(id)
    \/ \E params \in RecallParams : fg.pc = "idle" /\ RecallCall(params)
    \/ RecallStep
    \/ RecallFault
    \/ \E q \in ForgetQueries : rc.pc = "idle" /\ ForgetByQuery(q)
    \/ ForgetRecallStep
    \/ ForgetRecallFault
    \/ ForgetDelete
    \/ ForgetVectorDelete

SpecQuery == InitQuery /\ [][NextQuery]_vars

\* SpecInput: an instance configured with enableEmbeddings false that is
\* given params outside the documented ranges: store() with an empty or blank
\* text, an importance below 0 or above 1, a category outside MemoryCategory,
\* and recall() with a negative limit.
InputStores == 4
InputMaxMemories == 3

\* ""
TxtEmpty == <<>>
\* " "
TxtBlank == <<" ">>

MemoryCategory == {"preference", "fact", "decision", "entity", "conversation", "other"}

\* importance 15 is 1.5, importance -5 is -0.5
InputStoreParams ==
    { [text |-> TxtInBern, category |-> "", importance |-> -1, metadata |-> NoMetadata],
      [text |-> TxtEmpty, category |-> "fact", importance |-> 5, metadata |-> NoMetadata],
      [text |-> TxtBlank, category |-> "", importance |-> -1, metadata |-> NoMetadata],
      [text |-> TxtDark, category |-> "bogus", importance |-> 15, metadata |-> NoMetadata],
      [text |-> TxtOK, category |-> "conversation", importance |-> -5, metadata |-> NoMetadata] }

\* recall({ query: '', filterNoise: false }) with limit -1, absent, 1
InputRecallParams ==
    { [NoParams EXCEPT !.filterNoise = FALSE, !.limit = -1],
      [NoParams EXCEPT !.filterNoise = FALSE],
      [NoParams EXCEPT !.filterNoise = FALSE, !.limit = 1] }

InitInput ==
    /\ Constructed
    /\ enableEmbeddings = FALSE
    /\ maxMemories = InputMaxMemories
    /\ inserted = [on |-> FALSE, rows |-> NoRows]

NextInput ==
    \/ InitStart
    \/ InitSql
    \/ \E params \in InputStoreParams : nextId < InputStores /\ Store(params)
    \/ \E params \in InputRecallParams : RecallCall(params)

SpecInput == InitInput /\ [][NextInput]_vars

\* SpecShared: an instance configured with enableEmbeddings false, in a
\* process in which a second instance, configured with embeddings, is at work.
\* embeddingPipeline, lanceDb and lanceTable are variables of the module, so
\* what the second instance assigns to them is what the first one reads.
SharedStores == 2
SharedMaxMemories == 1

\* the id of the record the second instance stores
OtherId == -1

\* initLanceDB called by the init() of the second instance has settled
OtherInitLanceDB ==
    /\ ~lanceDb
    /\ lanceDb' = TRUE
    /\ UNCHANGED <<embeddingDimensions, db, dbOpen, initialized, file, enableEmbeddings, maxMemories, nextId,
                   clock, embeddingPipeline, lanceTable, vec, task, pendingDel, fg, rc,
                   pcInit, faults, closes, ret, inserted>>

\* ensureLanceTable called by the storeEmbedding of the second instance:
\* createTable has settled
OtherEnsureLanceTable ==
    /\ lanceDb
    /\ ~lanceTable
    /\ lanceTable' = TRUE
    /\ vec' = vec \cup {InitRow}
    /\ UNCHANGED <<embeddingDimensions, db, dbOpen, initialized, file, enableEmbeddings, maxMemories, nextId,
                   clock, embeddingPipeline, lanceDb, task, pendingDel, fg, rc, pcInit,
                   faults, closes, ret, inserted>>

\* ... the delete of the '__init__' row has settled
OtherDummyDeleted ==
    /\ lanceTable
    /\ InitRow \in vec
    /\ vec' = vec \ {InitRow}
    /\ UNCHANGED <<embeddingDimensions, db, dbOpen, initialized, file, enableEmbeddings, maxMemories, nextId,
                   clock, embeddingPipeline, lanceDb, lanceTable, task, pendingDel, fg,
                   rc, pcInit, faults, closes, ret, inserted>>

\* lanceTable.add called by the storeEmbedding of the second instance has settled
OtherVectorAdded ==
    /\ lanceTable
    /\ InitRow \notin vec
    /\ OtherId \notin vec
    /\ vec' = vec \cup {OtherId}
    /\ UNCHANGED <<embeddingDimensions, db, dbOpen, initialized, file, enableEmbeddings, maxMemories, nextId,
                   clock, embeddingPipeline, lanceDb, lanceTable, task, pendingDel, fg,
                   rc, pcInit, faults, closes, ret, inserted>>

\* recall({ query: 'bern' }) in each mode
SharedRecallParams ==
    { [NoParams EXCEPT !.query = QBern, !.mode = m] : m \in {"auto", "structured", "semantic"} }

InitShared ==
    /\ Constructed
    /\ enableEmbeddings = FALSE
    /\ maxMemories = SharedMaxMemories
    /\ inserted = [on |-> FALSE, rows |-> NoRows]

NextShared ==
    \/ InitStart
    \/ InitSql
    \/ OtherInitLanceDB
    \/ OtherEnsureLanceTable
    \/ OtherDummyDeleted
    \/ OtherVectorAdded
    \/ \E params \in QueryStoreParams : nextId < SharedStores /\ Store(params)
    \/ \E id \in pendingDel : PruneVectorDelete(id)
    \/ \E params \in SharedRecallParams : fg.pc = "idle" /\ RecallCall(params)
    \/ \E id \in 1..nextId : ForgetById(id)
    \/ \E q \in ForgetQueries : ForgetByQuery(q)
    \/ ForgetDelete
    \/ ForgetVectorDelete

SpecShared == InitShared /\ [][NextShared]_vars

\* SpecDirs: two instances of one process, each constructed with its own
\* dataDir and with embeddings enabled.  lanceDb and lanceTable are variables
\* of the module, so both instances reach the collection of whichever
\* initLanceDB connected first: vec is the content of that one collection.
DirsStores == 2
DirsMaxMemories == 1

InitDirs ==
    /\ Constructed
    /\ enableEmbeddings = TRUE
    /\ maxMemories = DirsMaxMemories
    /\ inserted = [on |-> FALSE, rows |-> NoRows]

NextDirs ==
    \/ InitStart
    \/ InitSql
    \/ InitLance
    \/ OtherInitLanceDB
    \/ OtherEnsureLanceTable
    \/ OtherDummyDeleted
    \/ OtherVectorAdded
    \/ \E params \in QueryStoreParams : nextId < DirsStores /\ Store(params)
    \/ \E id \in pendingDel : PruneVectorDelete(id)
    \/ \E id \in DOMAIN task : TaskLoadDone(id)
    \/ \E id \in DOMAIN task : TaskRunDone(id)
    \/ \E id \in DOMAIN task : TaskCreateDone(id)
    \/ \E id \in DOMAIN task : TaskDummyDone(id)
    \/ \E id \in DOMAIN task : TaskAddDone(id)

SpecDirs == InitDirs /\ [][NextDirs]_vars

\* SpecClose: one instance with embeddings enabled whose stores are all made
\* before close(): init(), store(), close() while storeEmbedding calls are in
\* flight, init() again, and the steps of those calls.
NextClose ==
    \/ InitStart
    \/ InitSql
    \/ InitLance
    \/ Close
    \/ \E params \in StoreParams : closes = 0 /\ nextId < MaxStores /\ Store(params)
    \/ \E id \in pendingDel : PruneVectorDelete(id)
    \/ \E id \in DOMAIN task : TaskLoadDone(id)
    \/ \E id \in DOMAIN task : TaskRunDone(id)
    \/ \E id \in DOMAIN task : TaskCreateDone(id)
    \/ \E id \in DOMAIN task : TaskDummyDone(id)
    \/ \E id \in DOMAIN task : TaskAddDone(id)

SpecClose == Init /\ [][NextClose]_vars

\* ------------------------------------------------------------ shared terms
\* every storeEmbedding call that was started has ended
TasksFinished == \A i \in DOMAIN task : task[i] \in {"done", "err_env", "err_exists"}

\* the rows of the Structured Index: the open database, else its file
StructuredRows == IF dbOpen THEN db ELSE file

\* no public call is in progress and no asynchronous work is pending
Quiescent ==
    /\ TasksFinished
    /\ pendingDel = {}
    /\ fg.pc = "idle"
    /\ rc.pc = "idle"
    /\ pcInit = "idle"

\* ---------------------------------------------------------------------- C1
\* C1: once forget({memoryId: X}) has returned and every storeEmbedding call
\* has ended, X is in neither the Structured Index nor the Vector Index.
C1_ForgottenIdInNoStore ==
    (ret.op = "forget" /\ ret.id # 0 /\ TasksFinished)
        => (ret.id \notin DOMAIN StructuredRows /\ ret.id \notin vec)

\* ---------------------------------------------------------------------- C5
\* C5: whenever a store call has returned, the Structured Index holds at most
\* maxMemories rows, also when stores interleave with storeEmbedding steps.
C5_StoreCountBound ==
    ret.op = "store" => Cardinality(DOMAIN db) <= maxMemories

\* a store that had to evict has returned while a storeEmbedding call is in flight
C5_Witness ==
    /\ ret.op = "store"
    /\ nextId > maxMemories
    /\ Cardinality(DOMAIN db) = maxMemories
    /\ \E i \in DOMAIN task : task[i] \in {"load", "run", "create", "dummy", "add"}

\* ---------------------------------------------------------------------- C8
\* C8: in every quiescent state an id has a row in the Vector Index if and
\* only if the Structured Index holds its row with has_embedding set.  (Stated
\* on the runs in which no engine call failed and the instance was not closed.)
C8_CrossStoreConsistency ==
    (Quiescent /\ faults = 0 /\ closes = 0) =>
        \A id \in 1..nextId :
            id \in vec <=> (id \in DOMAIN StructuredRows /\ StructuredRows[id].has_embedding)

\* ---------------------------------------------------------------------- C9
\* C9: a record stored with embeddings enabled and the Vector Index connected,
\* and not deleted since, has has_embedding set and a row in the Vector Index
\* once its storeEmbedding call has ended, when no engine call failed and the
\* instance was not closed.  (The eventuality, stated at the end of the work.)
C9_EmbeddedOnceTaskEnded ==
    \A id \in DOMAIN task :
        (/\ task[id] \in {"done", "err_env", "err_exists"}
         /\ faults = 0
         /\ closes = 0
         /\ id \in DOMAIN db)
            => (db[id].has_embedding /\ id \in vec)

\* ---------------------------------------------------------------------- C2
\* the limits of the recall that follows a store: absent (the default), 1, 2
C2_Limits == {0, 1, 2}

\* recall({ mode: 'structured', query: params.text, limit }) after the store
C2_Recall(lim) ==
    [NoParams EXCEPT !.mode = "structured", !.query = ret.list[1].text, !.limit = lim]

\* list holds the record m with the metadata md
C2_Includes(list, m, md) ==
    \E i \in 1..Len(list) :
        /\ list[i].id = m.id
        /\ list[i].text = m.text
        /\ list[i].category = m.category
        /\ list[i].importance = m.importance
        /\ list[i].metadata = md

\* the rows other than m's that the recall matches and that ORDER BY does not
\* place strictly after m's row
C2_NotBelow(m, params) ==
    {o \in (DOMAIN db) \ {m.id} : WhereClause(db[o], params) /\ ~RanksAbove(db, m.id, o)}

\* C2 as stated: right after store(params) has returned, the structured recall
\* of params.text with the default limit returns a list that holds the record
\* with the id store returned and the same text, category, importance and
\* metadata.
C2_RoundTrip ==
    ret.op = "store" =>
        \A o \in StructuredAnswer(C2_Recall(0)) :
            o.k = "returns" /\ C2_Includes(o.list, ret.list[1], ret.list[1].metadata)

\* C2 amended: right after store(params) has returned, the structured recall of
\* params.text holds the record with the same id, text, category and
\* importance, and with the metadata as JSON.parse(JSON.stringify(..)) gives
\* it back, provided that the record survived the retention run of its store,
\* that its text matches no noise pattern, and that fewer than limit other
\* matching rows are not ordered strictly after it.
C2_RoundTripAmended ==
    ret.op = "store" =>
        LET m == ret.list[1] IN
        \A lim \in C2_Limits :
            (/\ m.id \in DOMAIN db
             /\ ~IsNoise(m.text)
             /\ Cardinality(C2_NotBelow(m, C2_Recall(lim))) < LimitOf(C2_Recall(lim)))
                => \A o \in StructuredAnswer(C2_Recall(lim)) :
                      /\ o.k = "returns"
                      /\ C2_Includes(o.list, m, MetadataOfRow(MetadataColumn(m.metadata)))

\* a store whose record survived retention next to another row, with metadata
\* that JSON changes, has returned
C2_Witness ==
    /\ ret.op = "store"
    /\ ret.list[1].id \in DOMAIN db
    /\ ~IsNoise(ret.list[1].text)
    /\ nextId > maxMemories
    /\ Cardinality(DOMAIN db) > 1
    /\ MetadataOfRow(MetadataColumn(ret.list[1].metadata)) # ret.list[1].metadata

\* ---------------------------------------------------------------------- C6
\* C6: after stores made one after the other into an empty store, the
\* Structured Index holds min(number stored, maxMemories) rows, each as it was
\* inserted, and no evicted row comes before a surviving row in the order
\* (importance descending, created_at descending); rows equal in both keys
\* are interchangeable.
C6_RetentionKeepsHighest ==
    dbOpen =>
        LET all == inserted.rows IN
        /\ Cardinality(DOMAIN db) = Min(Cardinality(DOMAIN all), maxMemories)
        /\ DOMAIN db \subseteq DOMAIN all
        /\ \A s \in DOMAIN db : db[s] = all[s]
        /\ \A s \in DOMAIN db : \A e \in (DOMAIN all) \ (DOMAIN db) :
              ~RanksAbove(all, e, s)

\* maxMemories + 2 records were stored, and an evicted row shares importance
\* and created_at with a surviving row
C6_Witness ==
    /\ dbOpen
    /\ nextId = maxMemories + 2
    /\ Cardinality(DOMAIN db) = maxMemories
    /\ \E s \in DOMAIN db : \E e \in (DOMAIN inserted.rows) \ (DOMAIN db) :
          /\ inserted.rows[e].importance = db[s].importance
          /\ inserted.rows[e].created_at = db[s].created_at

\* ---------------------------------------------------------------------- C3
\* the rows of d whose text contains a search word of q
C3_Matching(d, q) ==
    {i \in DOMAIN d : \E w \in SeqToSet(SearchWordsOf[q]) : Like(d[i].text_lower, w)}

\* C3: when forget({ query: q }) has returned, for a q that has search words,
\* every row it removed contains a word of q: the rows that contain none are
\* still there.
C3_ForgetOnlyMatching ==
    (ret.op = "forget" /\ ret.id = 0 /\ SearchWordsOf[ret.params.query] # <<>>)
        => ret.removed \subseteq C3_Matching(ret.snap, ret.params.query)

\* ---------------------------------------------------------------------- C4
\* what holds once forget({ query }) has returned
C4_Returned ==
    (ret.op = "forget" /\ ret.id = 0)
        => /\ \A i \in 1..Len(ret.targets) : ret.targets[i] \notin DOMAIN db
           /\ Len(ret.targets) <= ForgetLimit
           /\ ret.removed = SeqToSet(ret.targets) \cap DOMAIN ret.snap
           /\ ret.deleted = Cardinality(ret.removed)
           /\ ret.params.limit = ForgetLimit
           /\ ~ret.params.filterNoise

\* the recall of forget({ query }), answered by structuredSearch, targets every
\* row its WHERE clause matches, noise or not
C4_Targeted ==
    (fg.pc = "idle" /\ fg'.pc = "del" /\ AnswersStructured(fg'.params))
        => SeqToSet(fg'.targets) = {i \in DOMAIN db : WhereClause(db[i], fg'.params)}

C7_Called(X) ==
    /\ fg.pc = "idle"
    /\ dbOpen
    /\ \/ fg'.pc = "vdel" /\ fg'.memoryId = X
       \/ fg'.pc = "idle" /\ ret'.op = "forget" /\ ret'.id = X /\ ret' # ret

\* the count that call will return
C7_Deleted == IF fg'.pc = "vdel" THEN fg'.deleted ELSE ret'.deleted

\* C7: while retention has evicted nothing, forget({ memoryId: X }) for a row
\* X returns 1 and removes the row; for an X without a row it returns 0,
\* raises no error and changes neither store.
C7_IdempotentDelete ==
    [][\A X \in 1..nextId :
          nextId <= maxMemories =>
            /\ (C7_Called(X) /\ X \in DOMAIN db)
                  => (C7_Deleted = 1 /\ X \notin DOMAIN db')
            /\ (C7_Called(X) /\ X \notin DOMAIN db)
                  => (C7_Deleted = 0 /\ db' = db /\ vec' = vec)
            /\ (fg.pc = "vdel" /\ fg.memoryId = X /\ fg.deleted = 0 /\ fg' # fg)
                  => (ret'.op = "forget" /\ db' = db /\ vec' = vec)]_vars

\* --------------------------------------------------------------------- C10
\* C10: when the recall on the semantic path ends because embed() or the
\* vector search rejected, or ends with a search none of whose ids has a row
\* in the Structured Index, it returns what structuredSearch returns for the
\* same params.
C10_SemanticFallback ==
    [][(/\ rc.pc \in {"run", "search"}
        /\ rc'.pc = "idle"
        /\ dbOpen
        /\ (faults' # faults \/ vec \cap DOMAIN db = {}))
          => ret' \in {RecallReturn(rc.params, o) : o \in StructuredAnswer(rc.params)}]_vars

\* --------------------------------------------------------------------- C12
\* a recall call returns in this step without having awaited anything
C12_ReturnsAtOnce ==
    /\ rc.pc = "idle"
    /\ rc'.pc = "idle"
    /\ ret'.op = "recall"
    /\ ret' # ret

\* a recall call returns in this step from a vector search that resolved
C12_ReturnsFromSearch ==
    /\ rc.pc = "search"
    /\ rc'.pc = "idle"
    /\ ret'.op = "recall"
    /\ faults' = faults

\* the ids of the records a list holds
C12_Ids(list) == {list[i].id : i \in 1..Len(list)}

\* with the filter on, no record recall returns has a text that is noise
C12_Filtered ==
    (ret.op = "recall" /\ ret.params.filterNoise)
        => \A i \in 1..Len(ret.list) : ~IsNoise(ret.list[i].text)

\* with filterNoise false a row whose text is noise is returned like any
\* other: by structuredSearch when the rows the query selects fit the limit,
\* by the vector search when the rows that have a vector fit the limit
C12_Unfiltered ==
    /\ (C12_ReturnsAtOnce /\ ~ret'.params.filterNoise)
          => LET hit == {i \in DOMAIN db : WhereClause(db[i], ret'.params)}
             IN  Cardinality(hit) <= LimitOf(ret'.params)
                    => \A i \in hit : IsNoise(db[i].text) => i \in C12_Ids(ret'.list)
    /\ (C12_ReturnsFromSearch /\ ~ret'.params.filterNoise /\ vec \cap DOMAIN db # {})
          => (Cardinality(vec) <= LimitOf(ret'.params)
                => \A i \in vec \cap DOMAIN db :
                      IsNoise(db[i].text) => i \in C12_Ids(ret'.list))

\* C12: when filterNoise is absent or true recall returns no record whose text
\* matches a noise pattern; when filterNoise is false no record is dropped for
\* matching one, so a stored 'OK' that the query selects is returned.
C12_NoiseFiltering == [](C12_Filtered) /\ [][C12_Unfiltered]_vars

\* recall with the filter on has returned while a row whose text is noise
\* matches its query
C12_Witness ==
    /\ ret.op = "recall"
    /\ ret.params.filterNoise
    /\ dbOpen
    /\ \E i \in DOMAIN db : IsNoise(db[i].text) /\ WhereClause(db[i], ret.params)

\* --------------------------------------------------------------------- C16
\* the temporal and the exact-lookup patterns
C16_Patterns == SeqToSet(TEMPORAL_PATTERNS) \cup SeqToSet(EXACT_PATTERNS)

\* whether a query matches at least one of them, for each query of the model
C16_MatchesOf == [q \in Queries |-> \E pat \in C16_Patterns : RegexTest(pat, q)]

\* the mode the rule gives for params
C16_Mode(params) ==
    IF params.mode \in {"structured", "semantic"} THEN params.mode
    ELSE IF C16_MatchesOf[params.query] THEN "structured" ELSE "semantic"

\* the mode recall resolves is the mode of the rule, for every query and mode
C16_Resolved ==
    \A q \in Queries : \A mode \in {"auto", "structured", "semantic"} :
        LET params == [NoParams EXCEPT !.query = q, !.mode = mode]
        IN  QueryType(params) = C16_Mode(params)

\* with embeddings enabled and the vector table open, a recall call starts
\* the semantic search exactly when the rule gives semantic
C16_Routed ==
    (rc.pc = "idle" /\ dbOpen /\ enableEmbeddings /\ lanceTable)
        => /\ rc'.pc # "idle" => C16_Mode(rc'.params) = "semantic"
           /\ (rc'.pc = "idle" /\ ret'.op = "recall" /\ ret' # ret)
                 => C16_Mode(ret'.params) = "structured"

\* C16: recall uses params.mode when it is 'structured' or 'semantic',
\* whatever the query; for mode 'auto' the mode is structured if and only if
\* the query matches a temporal or an exact-lookup pattern, semantic
\* otherwise; the classification depends on the query string alone.
C16_ModeResolution == [](C16_Resolved) /\ [][C16_Routed]_vars

\* recall with the explicit mode 'semantic' has gone to the vector search for a
\* query that detectQueryType classifies as structured
C16_Witness ==
    /\ rc.pc = "search"
    /\ rc.params.mode = "semantic"
    /\ RouteOf[rc.params.query] = "structured"

\* --------------------------------------------------------------------- C13
\* the ends of a storeEmbedding call that failed
C13_Failed == {"err_env", "err_exists"}

\* recall({ mode: 'structured', query: text, limit: 100, filterNoise: false })
C13_Recall(text) ==
    [NoParams EXCEPT !.mode = "structured", !.query = text, !.limit = ForgetLimit,
                     !.filterNoise = FALSE]

\* a record whose storeEmbedding call failed, if its row was not deleted, has
\* has_embedding = 0 and is found by the structured recall of its text
C13_Kept ==
    \A id \in DOMAIN task :
        (task[id] \in C13_Failed /\ id \in DOMAIN StructuredRows)
            => /\ ~StructuredRows[id].has_embedding
               /\ dbOpen =>
                    \A o \in StructuredAnswer(C13_Recall(db[id].text)) :
                        o.k = "returns" /\ \E i \in 1..Len(o.list) : o.list[i].id = id

\* the step in which a storeEmbedding call fails changes neither the rows nor
\* what store returned
C13_Caught ==
    (\E id \in (DOMAIN task) \cap (DOMAIN task') :
        task[id] \notin C13_Failed /\ task'[id] \in C13_Failed)
        => (db' = db /\ file' = file /\ ret' = ret)

\* C13: a failure of embed(), of the creation of the vector table or of the
\* vector insert in storeEmbedding does not make store fail: what store
\* returned stands, the row stays with has_embedding = 0 and the structured
\* recall finds it.
C13_EmbeddingFailureIsCaught == [](C13_Kept) /\ [][C13_Caught]_vars

\* store has returned a record whose storeEmbedding call then failed
C13_Witness ==
    /\ ret.op = "store"
    /\ dbOpen
    /\ ret.id \in DOMAIN db
    /\ ret.id \in DOMAIN task
    /\ task[ret.id] \in C13_Failed

\* --------------------------------------------------------------------- C15
\* store inserts a row in this step
C15_Stores == nextId' # nextId

\* forget deletes, or returns a count, in this step
C15_Forgets ==
    /\ fg.pc = "idle"
    /\ \/ fg'.pc # "idle"
       \/ ret'.op = "forget" /\ ret' # ret

\* C15: while init() has not completed, and after close(), a call of store or
\* forget inserts nothing, deletes nothing and returns nothing: it fails.
C15_FailsUnlessInitialized == [][~initialized => (~C15_Stores /\ ~C15_Forgets)]_vars

\* --------------------------------------------------------------------- C14
\* a text that is empty after trimming
C14_Blank(text) == \A i \in 1..Len(text) : IsSpace(text[i])

\* C14: store with a text that is empty, or empty after trimming, inserts no
\* row and returns no record.
C14_EmptyTextRejected ==
    /\ \A id \in DOMAIN db : ~C14_Blank(db[id].text)
    /\ ret.op = "store" => ~C14_Blank(ret.list[1].text)

\* --------------------------------------------------------------------- C17
\* the limit of the rule: 5 when absent, 1 when below 1.  (params.limit 0
\* stands for an absent limit as well as for 0, which the code does not tell
\* apart: it is given the 5 of the absent limit here.)
C17_Limit(params) ==
    IF params.limit = 0 THEN DefaultLimit
    ELSE IF params.limit < 0 THEN 1 ELSE params.limit

\* C17: recall returns at most limit records, where limit is 5 when absent
\* and 1 when a negative limit is given.
C17_AtMostLimit ==
    ret.op = "recall" => Len(ret.list) <= C17_Limit(ret.params)

\* --------------------------------------------------------------------- C19
\* C19: every row of the Structured Index and every record store returns has
\* an importance from 0 to 1 (0 to 10 in tenths).
C19_ImportanceInRange ==
    /\ \A id \in DOMAIN db : db[id].importance >= 0 /\ db[id].importance <= 10
    /\ ret.op = "store" => (ret.list[1].importance >= 0 /\ ret.list[1].importance <= 10)

\* --------------------------------------------------------------------- C20
\* C20: every row of the Structured Index has a category of MemoryCategory.
C20_CategoryInClosedSet ==
    \A id \in DOMAIN db : db[id].category \in MemoryCategory

\* --------------------------------------------------------------------- C11
\* recall({ mode, query }) with the default limit
C11_Recall(mode, q) == [NoParams EXCEPT !.mode = mode, !.query = q]

\* C11: with enableEmbeddings false, for every query, recall in mode 'auto'
\* and recall in mode 'semantic' return what recall in mode 'structured'
\* returns, without awaiting the vector search.
C11_DegradedEquivalence ==
    (~enableEmbeddings /\ dbOpen) =>
        \A q \in Queries :
            /\ RecallBegin(C11_Recall("auto", q)) = RecallBegin(C11_Recall("structured", q))
            /\ RecallBegin(C11_Recall("semantic", q)) = RecallBegin(C11_Recall("structured", q))
            /\ \A o \in RecallBegin(C11_Recall("structured", q)) : o.k = "returns"

\* with enableEmbeddings false, recall in mode 'semantic' has returned a record
\* while the vector table of the process is open and holds a vector
C11_Witness ==
    /\ ~enableEmbeddings
    /\ lanceTable
    /\ OtherId \in vec
    /\ ret.op = "recall"
    /\ ret.params.mode = "semantic"
    /\ Len(ret.list) >= 1

\* --------------------------------------------------------------------- C18
\* C18: with enableEmbeddings false, no call of the instance has a read or a
\* write of the Vector Index in progress: no vector search of recall, no
\* storeEmbedding, no lanceTable.delete of forget or of retention.
C18_NoVectorAccess ==
    ~enableEmbeddings =>
        /\ rc.pc = "idle"
        /\ DOMAIN task = {}
        /\ fg.pc # "vdel"
        /\ pendingDel = {}

\* ------------------------------------------------------------------- C21
\* the filters of params hold of the memory m
C21_Satisfies(m, params) ==
    /\ params.category # "" => m.category = params.category
    /\ params.dateFrom >= 0 => m.createdAt >= params.dateFrom
    /\ params.dateTo >= 0 => m.createdAt <= params.dateTo

\* C21: every record recall returns satisfies the category, dateFrom and
\* dateTo of the call, whichever path answered it.  The code applies the
\* filters in structuredSearch only: semanticSearch hydrates the hits by id.
C21_FiltersOnEveryPath ==
    ret.op = "recall" =>
        \A i \in 1..Len(ret.list) : C21_Satisfies(ret.list[i], ret.params)

\* ------------------------------------------------------------------- C22
\* C22: when store returns the record R, a row with R.id is in the
\* Structured Index: the retention run of the same store call never evicts
\* the record just stored.
C22_StoredIsPresent ==
    ret.op = "store" => ret.id \in DOMAIN db

\* the memory m is ordered strictly before the row by (importance descending,
\* createdAt descending)
C22_Outranks(m, row) ==
    \/ m.importance > row.importance
    \/ m.importance = row.importance /\ m.createdAt > row.created_at

\* C22 as the code has it: when store returns R, either the row of R is in
\* the Structured Index as inserted, or the retention run of the call evicted
\* it: then the store holds maxMemories rows and R is ordered before none of
\* them.  (Stated for stores made one after the other, where nothing but
\* store changes the rows.)
C22_StoredIsPresentUnlessLowest ==
    ret.op = "store" =>
        LET R == ret.list[1] IN
        IF ret.id \in DOMAIN db THEN db[ret.id] = RowOf(R)
        ELSE /\ Cardinality(DOMAIN db) = maxMemories
             /\ \A s \in DOMAIN db : ~C22_Outranks(R, db[s])

\* store returned R after its retention run evicted an older record that
\* shares the importance of R, and R is present
C22_Witness ==
    /\ ret.op = "store"
    /\ ret.id \in DOMAIN db
    /\ \E e \in (DOMAIN inserted.rows) \ (DOMAIN db) :
          /\ e = ret.id - 1
          /\ inserted.rows[e].importance = db[ret.id].importance
          /\ inserted.rows[e].created_at < db[ret.id].created_at

\* ------------------------------------------------------------------- C23
\* C23: recall never returns a record that is absent from the Structured
\* Index when the call hydrates its results: every memory of the returned
\* list has a row in SQLite with its text, and the ids the Vector Index
\* returned for deleted records are dropped.
C23_ReturnsOnlyStoredRows ==
    ret.op = "recall" =>
        \A i \in 1..Len(ret.list) :
            /\ ret.list[i].id \in DOMAIN db
            /\ ret.list[i].text = db[ret.list[i].id].text

\* a recall answered from the Vector Index returned a record while the
\* Vector Index held the vector of a deleted record
C23_Witness ==
    /\ ret.op = "recall"
    /\ ret.list # <<>>
    /\ ret.list[1].score # <<>>
    /\ \E id \in vec : id > 0 /\ id \notin DOMAIN db

\* ------------------------------------------------------------------- C24
\* C24: concurrent first calls of embed initialise the embedding pipeline at
\* most once: the model is loaded a single time.  embeddingPipeline counts
\* the loads; getEmbeddingPipeline tests the variable before it awaits, so
\* every call that starts before the first load resolves loads the model.
C24_PipelineLoadedOnce ==
    embeddingPipeline <= 1

\* ------------------------------------------------------------------- C25
\* C25: two instances initialised in one process with different data
\* directories never insert into the same vector collection: no collection
\* holds a vector of a record of this instance and the vector of the record
\* of the second instance.
C25_SeparateCollections ==
    ~(OtherId \in vec /\ \E id \in vec : id > 0)

\* ------------------------------------------------------------------- C26
\* recall({ query: 'dark ok', mode: 'structured', filterNoise: false })
C26_Params == [NoParams EXCEPT !.query = QDarkOk, !.mode = "structured",
                               !.filterNoise = FALSE]

\* C26: every record a structured query returns, when search words are left
\* after the stop words are removed, contains all of those words as
\* case-insensitive substrings of its text.  structuredSearch joins its LIKE
\* conditions with OR, so one word is enough.
C26_ContainsAllTokens ==
    dbOpen =>
        \A r \in structuredSearch(db, C26_Params, LimitOf(C26_Params)) :
            \A i \in 1..Len(r) :
                \A w \in SeqToSet(SearchWordsOf[C26_Params.query]) :
                    Like(toLowerCase(r[i].text), w)

\* ------------------------------------------------------------------- C27
\* structured queries with the query 'is', of which no search word is left
C27_Params ==
    { [NoParams EXCEPT !.query = QIs, !.mode = "structured", !.filterNoise = FALSE,
                       !.limit = l, !.category = c, !.dateFrom = f] :
        l \in {0, 1}, c \in {"", "conversation"}, f \in {-1, 1} }

\* the rows of db that meet the category and date filters of params
C27_Filtered(params) ==
    {id \in DOMAIN db :
        /\ params.category # "" => db[id].category = params.category
        /\ params.dateFrom >= 0 => db[id].created_at >= params.dateFrom
        /\ params.dateTo >= 0 => db[id].created_at <= params.dateTo}

\* a structured query without search words returns the first 2 x limit of the
\* rows that meet the filters, whatever their text
C27_NoTextConstraint ==
    dbOpen =>
        \A params \in C27_Params :
            \A r \in structuredSearch(db, params, LimitOf(params)) :
                /\ SearchWordsOf[params.query] = <<>>
                /\ SeqToSet(MemoryIds(r)) \subseteq C27_Filtered(params)
                /\ Len(r) = Min(FetchFactor * LimitOf(params),
                                Cardinality(C27_Filtered(params)))
                /\ \A i, j \in 1..Len(r) : i # j => r[i].id # r[j].id

\* the step in which forget({ query: 'is' }) gets its targets from the
\* structured path: every row is a target
C27_ForgetTargetsAll ==
    (fg.pc = "idle" /\ fg'.pc = "del" /\ fg'.params.query = QIs)
        => SeqToSet(fg'.targets) = DOMAIN db

\* C27: a structured query whose words are all dropped applies no text
\* constraint: it returns the records that meet the category and date
\* filters, up to 2 x limit of them, and forget({ query }) with such a query,
\* answered by the structured path, targets the records whatever their text.
C27_EmptyTokenSetMatchesAll ==
    [](C27_NoTextConstraint) /\ [][C27_ForgetTargetsAll]_vars

\* forget({ query: 'is' }) answered by the structured path has removed two
\* rows, neither of which contains 'is'
C27_Witness ==
    /\ ret.op = "forget"
    /\ ret.params.query = QIs
    /\ ~lanceTable
    /\ ret.deleted = 2
    /\ \A i \in ret.removed : ~Like(ret.snap[i].text_lower, QIs)

\* ------------------------------------------------------------------- C28
\* the list of memories r is sorted by importance descending, then createdAt
\* descending
C28_Sorted(r) ==
    \A i, j \in 1..Len(r) :
        i < j => \/ r[i].importance > r[j].importance
                 \/ /\ r[i].importance = r[j].importance
                    /\ r[i].createdAt >= r[j].createdAt

\* C28: the structured path fetches at most 2 x limit candidates, sorted by
\* importance descending, then createdAt descending, and the noise filter and
\* the cut to limit keep that order.  The limit is the one of C17: 5 when
\* absent, 1 when a negative limit is given.
C28_SortedAndBounded ==
    dbOpen =>
        \A params \in InputRecallParams :
            \A r \in structuredSearch(db, params, LimitOf(params)) :
                /\ C28_Sorted(r)
                /\ Len(r) <= FetchFactor * C17_Limit(params)
                /\ C28_Sorted(FilterAndSlice(r, params, LimitOf(params)))

\* ------------------------------------------------------------------- C29
\* the step in which a lanceTable.delete of forget rejects
C29_VectorDeleteFails ==
    /\ fg.pc = "vdel"
    /\ fg'.pc = "idle"
    /\ faults' = faults + 1

\* forget returns { deleted } with the number of rows its DELETE removed,
\* and the rows stay removed from the database and from its file
C29_ForgetUnaffected ==
    C29_VectorDeleteFails =>
        /\ ret'.op = "forget"
        /\ ret'.removed = SeqToSet(fg.targets) \cap DOMAIN fg.snap
        /\ ret'.deleted = Cardinality(ret'.removed)
        /\ db' = db
        /\ ret'.removed \cap DOMAIN db' = {}
        /\ ret'.removed \cap DOMAIN file' = {}

\* C29: a failure of the Vector Index while forget deletes vectors does not
\* raise to the caller, does not undo the deletion from the Structured Index,
\* and does not change the returned count, which is the number of rows
\* removed from the Structured Index.
C29_VectorFailureInForget == [][C29_ForgetUnaffected]_vars

\* forget removed a row and returned although a vector delete failed: the
\* vector of a removed record is still in the Vector Index
C29_Witness ==
    /\ ret.op = "forget"
    /\ ret.deleted >= 1
    /\ faults = 1
    /\ TasksFinished
    /\ \A i \in DOMAIN task : task[i] = "done"
    /\ \E id \in ret.removed : id \in vec /\ ret.snap[id].has_embedding

\* ------------------------------------------------------------------- C30
\* a storeEmbedding call takes a step: the call of record id
C30_TaskStep(id) ==
    /\ id \in DOMAIN task
    /\ id \in DOMAIN task'
    /\ task'[id] # task[id]

\* C30: when close() was called while a storeEmbedding call was in flight,
\* the later steps of the call raise no error and modify neither the
\* Structured Index nor its file.  (In SpecClose every store precedes
\* close(), so a call that takes a step after close() was in flight then.)
C30_CompletionAfterClose ==
    [][ \A id \in DOMAIN task :
          (closes > 0 /\ C30_TaskStep(id))
              => (db' = db /\ file' = file /\ ret' = ret) ]_vars

\* what such a step does: nothing to the rows while the instance is closed;
\* once init() has opened the database again, the completion may only set
\* has_embedding on the row of its record and save the database
C30_Harmless(id) ==
    (closes > 0 /\ C30_TaskStep(id)) =>
        /\ ret' = ret
        /\ dbOpen' = dbOpen
        /\ IF dbOpen
           THEN /\ db' \in {db, MarkEmbedded(db, id)}
                /\ file' \in {file, db'}
           ELSE db' = db /\ file' = file

\* C30 as the code has it
C30_CompletionWhileClosed ==
    [][ \A id \in DOMAIN task : C30_Harmless(id) ]_vars

\* a storeEmbedding call completed while the instance was closed: its vector
\* is in the Vector Index and the row of the file is not marked
C30_Witness ==
    /\ ~dbOpen
    /\ closes = 1
    /\ \E id \in DOMAIN task :
          /\ task[id] = "done"
          /\ id \in vec
          /\ id \in DOMAIN file
          /\ ~file[id].has_embedding

\* ------------------------------------------------------------------- C31
\* the step in which the storeEmbedding call of record id completes:
\* lanceTable.add has resolved, and the UPDATE and the save have run
C31_Completes(id) ==
    /\ id \in DOMAIN task
    /\ task[id] = "add"
    /\ id \in DOMAIN task'
    /\ task'[id] = "done"
    /\ dbOpen

\* the rows after the step are those before it, but for has_embedding and
\* updated_at of row id
C31_Frame(id) ==
    /\ DOMAIN db' = DOMAIN db
    /\ \A j \in DOMAIN db :
          db'[j] = [db[j] EXCEPT !.has_embedding = db'[j].has_embedding,
                                 !.updated_at = db'[j].updated_at]
    /\ \A j \in (DOMAIN db) \ {id} : db'[j] = db[j]
    /\ ret' = ret

\* C31: the embedding-completion step for id X sets hasEmbedding and bumps
\* updatedAt of record X (to a time not before the latest store) and changes
\* nothing else; when X is not in the Structured Index it changes no row and
\* raises no error.  The UPDATE of storeEmbedding sets has_embedding only.
C31_MarkEmbeddedBumpsUpdatedAt ==
    [][ \A id \in DOMAIN task :
          C31_Completes(id) =>
              /\ C31_Frame(id)
              /\ id \in DOMAIN db =>
                    /\ db'[id].has_embedding
                    /\ db'[id].updated_at >= clock ]_vars

\* ------------------------------------------------------------------- C32
\* the file holds the rows of the open database, unless a forget has run its
\* DELETE and has not completed yet
C32_FileIsDatabase ==
    (dbOpen /\ fg.pc # "vdel") => file = db

\* close() leaves the rows of the database in the file, nothing writes the
\* file while the instance is closed, and init() reads the rows of the file
C32_Restart ==
    /\ (dbOpen /\ ~dbOpen') => file' = db
    /\ ~dbOpen => file' = file
    /\ (~dbOpen /\ dbOpen') => db' = file

\* C32: after each completed store, forget, retention eviction and
\* embedding-flag update the file of the Structured Index equals the
\* database in memory, so close() followed by init() yields the same records
\* with the same fields.
C32_PersistedEqualsMemory == [](C32_FileIsDatabase) /\ [][C32_Restart]_vars

\* the instance was closed and initialised again, and its database holds a
\* record marked as embedded
C32_Witness ==
    /\ dbOpen
    /\ initialized
    /\ closes = 1
    /\ fg.pc = "idle"
    /\ file = db
    /\ \E id \in DOMAIN db : db[id].has_embedding

\* ------------------------------------------------------------------- C33
\* a storeEmbedding call of the instance has had a vector from embed()
C33_Embedded ==
    \E id \in DOMAIN task :
        task[id] \in {"create", "dummy", "add", "add_mismatch", "done", "err_exists"}

\* C33: the embedding dimension is fixed by the first successful embed call:
\* the dimension the instance has recorded never changes afterwards.
\* storeEmbedding assigns this.embeddingDimensions the length of every vector
\* it gets, before anything looks at the length.
C33_DimensionFixed ==
    [][ C33_Embedded => embeddingDimensions' = embeddingDimensions ]_vars

\* ------------------------------------------------------------------- C34
\* no record of the list carries a score
C34_NoScore(list) == \A i \in 1..Len(list) : list[i].score = <<>>

\* the records of the list are records of the n vectors found, each with
\* score = 1 - distance for the distance of a hit, in ascending distance
C34_Scored(list, n) ==
    /\ \A i \in 1..Len(list) :
          /\ list[i].id \in vec
          /\ \E k \in 1..n : list[i].score = <<1 - (k - 1)>>
    /\ \A i, j \in 1..Len(list) : i < j => list[i].score[1] > list[j].score[1]

\* the step in which recall returns a list
C34_Returns == ret'.op = "recall" /\ rc'.pc = "idle" /\ (rc.pc # "idle" \/ ret' # ret)

\* a recall that returns without awaiting, after a failed embed or search, or
\* after a search without hits was answered by structuredSearch; a recall
\* whose search resolved with hits was answered from the hits
C34_ScoreOfPath ==
    C34_Returns =>
        IF rc.pc = "search" /\ faults' = faults /\ vec # {}
        THEN C34_Scored(ret'.list, Cardinality(vec))
        ELSE C34_NoScore(ret'.list)

\* C34: every record returned by the semantic path carries
\* score = 1 - distance and the records come in ascending distance; every
\* record returned by the structured path, the structured fallback after a
\* failed semantic attempt included, carries no score.
C34_ScoreOnlyOnSemanticPath == [][C34_ScoreOfPath]_vars

\* a recall answered from the Vector Index returned two records, the nearer
\* first
C34_Witness ==
    /\ ret.op = "recall"
    /\ Len(ret.list) = 2
    /\ ret.list[1].score = <<1>>
    /\ ret.list[2].score = <<0>>

====
